---- MODULE Spec2Model ----
(***************************************************************************)
(* Model of azure-function/TeslaAPI/__init__.py: the HTTP relay that       *)
(* validates a command request, optionally wakes the vehicle, issues one   *)
(* vendor command call, classifies the answer and replies with the         *)
(* {command, msg, statusCode} envelope, notifying a Telegram bot on every  *)
(* non-200 outcome.                                                        *)
(*                                                                         *)
(* Python values are tagged records.  A Python str is a sequence of words  *)
(* (PyStr(<<"Unknown", "command">>)), so that "%s" formatting is           *)
(* concatenation and the str form of `in` is a contiguous-subsequence      *)
(* test; a dict is a function from str keys (word sequences) to values.    *)
(***************************************************************************)
EXTENDS Integers, Sequences, FiniteSets, TLC

VARIABLES
  configExists,   \* os.path.exists(TELEGRAM_CONFIG) in this deployment
  TELEGRAM_BOT,   \* the module global: "None" or "Bot"
  pc,             \* where the current invocation of main stands
  req,            \* the HttpRequest being served: [method, body]
  tesla_awake,    \* force_wakeup's local
  counter,        \* force_wakeup's local
  slept,          \* seconds spent in time.sleep during this invocation
  calls,          \* the vehicle-API requests of this invocation and their answers, in order
  wakeFail,       \* how force_wakeup ended: "none" or the exception raised
  outcome,        \* what main produced: [kind, status, command, msg]
  expected,       \* what main produces on the same inputs when every send_message succeeds
  sendFailed,     \* some TELEGRAM_BOT.send_message call of this invocation raised
  sent            \* the texts handed to send_message that went through

vars == <<configExists, TELEGRAM_BOT, pc, req, tesla_awake, counter, slept, calls,
          wakeFail, outcome, expected, sendFailed, sent>>

TIMEOUT_WAKEUP == 30

-----------------------------------------------------------------------------
(* Python values *)

PyNone == [t |-> "null"]
PyBool(b) == [t |-> "bool", b |-> b]
PyInt(n) == [t |-> "int", n |-> n]
PyStr(ws) == [t |-> "str", s |-> ws]
PyList(l) == [t |-> "list", l |-> l]
PyDict(f) == [t |-> "dict", d |-> f]
EmptyDict == PyDict([k \in {} |-> PyNone])
\* a body that is not JSON at all: .json() / get_json() raises ValueError on it
NotJson == [t |-> "notjson"]

Ok(v) == [exc |-> "none", err |-> <<>>, val |-> v]
Raise(e, text) == [exc |-> e, err |-> text, val |-> PyNone]

\* needle in haystack, for two Python str
IsSubstring(n, h) ==
  \E i \in 0..(Len(h) - Len(n)) : \A j \in 1..Len(n) : h[i + j] = n[j]

\* Python's `key in c` for a str key
PyIn(key, c) ==
  CASE c.t = "dict" -> Ok(key \in DOMAIN c.d)
    [] c.t = "list" -> Ok(\E i \in DOMAIN c.l : c.l[i] = PyStr(key))
    [] c.t = "str"  -> Ok(IsSubstring(key, c.s))
    [] OTHER        -> Raise("TypeError", <<"argument", "of", "type", c.t, "is", "not", "iterable">>)

\* Python's c[key] for a str key
PyGetItem(c, key) ==
  CASE c.t = "dict" -> IF key \in DOMAIN c.d THEN Ok(c.d[key]) ELSE Raise("KeyError", key)
    [] c.t = "list" -> Raise("TypeError", <<"list", "indices", "must", "be", "integers">>)
    [] c.t = "str"  -> Raise("TypeError", <<"string", "indices", "must", "be", "integers">>)
    [] OTHER        -> Raise("TypeError", <<c.t, "object", "is", "not", "subscriptable">>)

\* Python's truth value
Truthy(v) ==
  CASE v.t = "null" -> FALSE
    [] v.t = "bool" -> v.b
    [] v.t = "int"  -> v.n # 0
    [] v.t = "str"  -> Len(v.s) > 0
    [] v.t = "list" -> Len(v.l) > 0
    [] v.t = "dict" -> DOMAIN v.d # {}

\* requests' Response.json()
Json(payload) ==
  IF payload.t = "notjson"
  THEN Raise("ValueError", <<"Expecting", "value">>)
  ELSE Ok(payload)

\* requests' Response.ok
RespOk(status) == status < 400

-----------------------------------------------------------------------------
(* The command table *)

COMMAND_ADAPTER ==
  (<<"wake_up">> :> <<"wake_up">>) @@
  (<<"stop_hvac">> :> <<"auto_conditioning_stop">>) @@
  (<<"start_hvac">> :> <<"auto_conditioning_start">>) @@
  (<<"start_hvac_max">> :> <<"set_preconditioning_max">>) @@
  (<<"set_temps">> :> <<"set_temps">>) @@
  (<<"honk_horn">> :> <<"honk_horn">>) @@
  (<<"flash_lights">> :> <<"flash_lights">>) @@
  (<<"actuate_trunk">> :> <<"actuate_trunk">>) @@
  (<<"actuate_frunk">> :> <<"actuate_trunk">>) @@
  (<<"start_remote_drive">> :> <<"remote_start_drive">>) @@
  (<<"start_sentry">> :> <<"set_sentry_mode">>) @@
  (<<"stop_sentry">> :> <<"set_sentry_mode">>) @@
  (<<"start_valet_mode">> :> <<"set_valet_mode">>) @@
  (<<"stop_valet_mode">> :> <<"set_valet_mode">>) @@
  (<<"unlock_doors">> :> <<"door_unlock">>) @@
  (<<"lock_doors">> :> <<"door_lock">>) @@
  (<<"open_charge_port_door">> :> <<"charge_port_door_open">>) @@
  (<<"close_charge_port_door">> :> <<"charge_port_door_close">>) @@
  (<<"start_charging">> :> <<"charge_start">>) @@
  (<<"stop_charging">> :> <<"charge_stop">>) @@
  (<<"set_charge_limit">> :> <<"set_charge_limit">>) @@
  (<<"charge_standard">> :> <<"charge_standard">>) @@
  (<<"charge_max_range">> :> <<"charge_max_range">>) @@
  (<<"close_windows">> :> <<"window_control">>) @@
  (<<"vent_windows">> :> <<"window_control">>)

-----------------------------------------------------------------------------
(* respond *)

K_TeslaApiError == <<"Tesla", "API", "error">>
K_Error == <<"error">>
K_VehicleUnavailable == <<"vehicle", "unavailable">>
K_Response == <<"response">>
K_Result == <<"result">>
K_State == <<"state">>
K_WakeError == <<"Error", "while", "waking", "up">>

\* the condition of respond's inner if: three `in` tests joined by `and`
AsleepCheck(message) ==
  LET a == PyIn(K_TeslaApiError, message) IN
  IF a.exc # "none" \/ ~a.val THEN a ELSE
  LET g == PyGetItem(message, K_TeslaApiError) IN
  IF g.exc # "none" THEN g ELSE
  LET b == PyIn(K_Error, g.val) IN
  IF b.exc # "none" \/ ~b.val THEN b ELSE
  LET e == PyGetItem(g.val, K_Error) IN
  IF e.exc # "none" THEN e ELSE
  PyIn(K_VehicleUnavailable, e.val)

AsleepText(command) ==
  PyStr(<<"Couldn't", "execute", "the", "command">> \o command.s
        \o <<"because", "your", "Tesla", "seems", "to", "be", "asleep.">>)

\* respond(message, command, status_code) with the global bot and the fate of
\* send_message; val is [http, sent]: the HttpResponse and the texts sent
respond(message, command, status_code, bot, sendOk) ==
  LET response == [command |-> command, msg |-> message, statusCode |-> status_code] IN
  IF bot # "None" /\ status_code # 200
  THEN LET c == AsleepCheck(message) IN
       IF c.exc # "none" THEN c
       ELSE IF ~sendOk THEN Raise("TelegramError", <<"send_message", "failed">>)
       ELSE Ok([http |-> response,
                sent |-> <<IF c.val THEN [canned |-> AsleepText(command)]
                                    ELSE [envelope |-> response]>>])
  ELSE Ok([http |-> response, sent |-> <<>>])

-----------------------------------------------------------------------------
(* main's two ways of calling respond *)

\* what the body of main's branch is about to do: call respond, or raise
CallRespond(message, command, status_code) ==
  [kind |-> "respond", message |-> message, command |-> command,
   status |-> status_code, exc |-> "none", err |-> <<>>]
WillRaise(e, text) ==
  [kind |-> "raise", message |-> PyNone, command |-> PyNone,
   status |-> 0, exc |-> e, err |-> text]

Perform(plan, bot, sendOk) ==
  IF plan.kind = "respond"
  THEN respond(plan.message, plan.command, plan.status, bot, sendOk)
  ELSE Raise(plan.exc, plan.err)

Returned(r) ==
  [kind |-> "returned", status |-> r.val.http.statusCode,
   command |-> r.val.http.command, msg |-> r.val.http.msg, exc |-> "none"]
Escaped(r) ==
  [kind |-> "raised", status |-> 0, command |-> PyNone, msg |-> PyNone, exc |-> r.exc]
Pending ==
  [kind |-> "pending", status |-> 0, command |-> PyNone, msg |-> PyNone, exc |-> "none"]

\* the except clause of main: respond("Server error %s" % str(e), status_code=500)
ServerError(r, bot, sendOk) ==
  respond(PyStr(<<"Server", "error">> \o r.err), PyStr(<<>>), 500, bot, sendOk)

\* main's result for a branch body `plan`; guarded: the body runs inside main's
\* try (POST), otherwise an exception of respond leaves main (GET, other methods)
main_result(plan, guarded, bot, s1, s2) ==
  LET r1 == Perform(plan, bot, s1)
      r2 == ServerError(r1, bot, s2)
  IN IF r1.exc = "none"
     THEN [out |-> Returned(r1), sent |-> r1.val.sent, failed |-> FALSE]
     ELSE IF ~guarded
     THEN [out |-> Escaped(r1), sent |-> <<>>, failed |-> r1.exc = "TelegramError"]
     ELSE IF r2.exc = "none"
     THEN [out |-> Returned(r2), sent |-> r2.val.sent, failed |-> r1.exc = "TelegramError"]
     ELSE [out |-> Escaped(r2), sent |-> <<>>,
           failed |-> r1.exc = "TelegramError" \/ r2.exc = "TelegramError"]

\* main returns (or raises): the invocation is over
Conclude(plan, guarded, bot) ==
  \E s1, s2 \in BOOLEAN :
    LET m == main_result(plan, guarded, bot, s1, s2) IN
    /\ outcome' = m.out
    /\ sent' = m.sent
    /\ sendFailed' = m.failed
    /\ expected' = main_result(plan, guarded, bot, TRUE, TRUE).out
    /\ pc' = "done"

-----------------------------------------------------------------------------
(* RequestModel and parse_post_request's checks *)

K_Token == <<"TOKEN">>
K_VehicleId == <<"VEHICLE_ID">>
K_InputCmd == <<"INPUT_CMD">>
K_VehicleTemp == <<"VEHICLE_TEMP">>
K_ChargeLimit == <<"VEHICLE_CHARGE_LIMIT">>
K_ForceWakeup == <<"FORCE_WAKEUP">>

\* RequestModel.parse_obj(body) raises no ValidationError
Validates(body) ==
  /\ body.t = "dict"
  /\ \A k \in {K_Token, K_VehicleId, K_InputCmd} : k \in DOMAIN body.d /\ body.d[k].t = "str"
  /\ \A k \in {K_VehicleTemp, K_ChargeLimit} \cap DOMAIN body.d : body.d[k].t \in {"str", "null"}
  /\ K_ForceWakeup \in DOMAIN body.d => body.d[K_ForceWakeup].t \in {"bool", "null"}

Field(body, k) == IF k \in DOMAIN body.d THEN body.d[k] ELSE PyNone

\* the parsed model; absent optional fields take their defaults
RequestModel(body) ==
  [TOKEN |-> body.d[K_Token], VEHICLE_ID |-> body.d[K_VehicleId],
   INPUT_CMD |-> body.d[K_InputCmd],
   VEHICLE_TEMP |-> Field(body, K_VehicleTemp),
   VEHICLE_CHARGE_LIMIT |-> Field(body, K_ChargeLimit),
   FORCE_WAKEUP |-> IF K_ForceWakeup \in DOMAIN body.d THEN body.d[K_ForceWakeup]
                    ELSE PyBool(FALSE)]

KnownCommand(model) == model.INPUT_CMD.s \in DOMAIN COMMAND_ADAPTER

gather_body_params(command, command_translated, model) ==
  IF command_translated = <<"actuate_trunk">> /\ command = <<"actuate_frunk">>
    THEN PyDict(<<"which_trunk">> :> PyStr(<<"front">>))
  ELSE IF command_translated = <<"actuate_trunk">> /\ command = <<"actuate_trunk">>
    THEN PyDict(<<"which_trunk">> :> PyStr(<<"rear">>))
  ELSE IF command_translated = <<"set_sentry_mode">> /\ command = <<"start_sentry">>
    THEN PyDict(<<"on">> :> PyBool(TRUE))
  ELSE IF command_translated = <<"set_sentry_mode">> /\ command = <<"stop_sentry">>
    THEN PyDict(<<"on">> :> PyBool(FALSE))
  ELSE IF command_translated = <<"set_valet_mode">> /\ command = <<"start_valet_mode">>
    THEN PyDict(<<"on">> :> PyBool(TRUE))
  ELSE IF command_translated = <<"set_valet_mode">> /\ command = <<"stop_valet_mode">>
    THEN PyDict(<<"on">> :> PyBool(FALSE))
  ELSE IF command_translated = <<"window_control">> /\ command = <<"close_windows">>
    THEN PyDict((<<"command">> :> PyStr(<<"close">>)) @@ (<<"lat">> :> PyInt(0))
                @@ (<<"lon">> :> PyInt(0)))
  ELSE IF command_translated = <<"window_control">> /\ command = <<"vent_windows">>
    THEN PyDict((<<"command">> :> PyStr(<<"vent">>)) @@ (<<"lat">> :> PyInt(0))
                @@ (<<"lon">> :> PyInt(0)))
  ELSE IF command_translated = <<"set_temps">>
    THEN PyDict(<<"driver_temp">> :> model.VEHICLE_TEMP)
  ELSE IF command_translated = <<"set_charge_limit">>
    THEN PyDict(<<"percent">> :> model.VEHICLE_CHARGE_LIMIT)
  ELSE EmptyDict

\* parse_head with the FORCE_WAKEUP test left out
parse_head_NoGate(body) ==
  IF ~Validates(body)
  THEN CallRespond(PyStr(<<"Validation", "error", "for", "RequestModel">>), PyStr(<<>>), 400)
  ELSE IF ~KnownCommand(RequestModel(body))
  THEN CallRespond(PyStr(<<"Unknown", "command">> \o RequestModel(body).INPUT_CMD.s),
                   RequestModel(body).INPUT_CMD, 400)
  ELSE [kind |-> "dispatch"]

\* parse_post_request up to its first outbound request: the response it returns
\* early, or where it goes on
parse_head(body) ==
  IF ~Validates(body)
  THEN CallRespond(PyStr(<<"Validation", "error", "for", "RequestModel">>), PyStr(<<>>), 400)
  ELSE IF ~KnownCommand(RequestModel(body))
  THEN CallRespond(PyStr(<<"Unknown", "command">> \o RequestModel(body).INPUT_CMD.s),
                   RequestModel(body).INPUT_CMD, 400)
  ELSE [kind |-> IF Truthy(RequestModel(body).FORCE_WAKEUP) THEN "wake" ELSE "dispatch"]

-----------------------------------------------------------------------------
(* The wake-up gate *)

\* __is_tesla_awake on the answer of the wake_up request
is_tesla_awake(payload) ==
  LET j == Json(payload) IN
  IF j.exc # "none" THEN j ELSE
  LET unfamiliar == Raise("KeyError", <<"Wakeup", "Response", "looks", "unfamiliar:", "%resp_content">>)
      a == PyIn(K_Response, j.val) IN
  IF a.exc # "none" THEN a ELSE
  IF ~a.val THEN unfamiliar ELSE
  LET g == PyGetItem(j.val, K_Response) IN
  IF g.exc # "none" THEN g ELSE
  LET b == PyIn(K_State, g.val) IN
  IF b.exc # "none" THEN b ELSE
  IF ~b.val THEN unfamiliar ELSE
  LET s == PyGetItem(g.val, K_State) IN
  IF s.exc # "none" THEN s ELSE
  Ok(s.val = PyStr(<<"online">>))

\* the exit test with >= for >
TimedOut_AtCeiling(c) == c >= TIMEOUT_WAKEUP

\* the loop's exit test on the accumulated wait
TimedOut(c) == c > TIMEOUT_WAKEUP

TimeoutError ==
  Raise("TimeoutError", <<"Waited", "30", "seconds", "for", "Tesla", "to", "wakeup",
                          "but", "it", "didn't!">>)

\* what one wake_up request showed, as logged in polls
PollKind(r) == IF r.exc # "none" THEN r.exc ELSE IF r.val THEN "online" ELSE "offline"

\* parse_post_request's except (TimeoutError, KeyError) around force_wakeup;
\* any other exception travels on to main
WakeFailure(e, model) ==
  IF e.exc \in {"TimeoutError", "KeyError"}
  THEN CallRespond(PyDict(K_WakeError :> PyStr(e.err)), model.INPUT_CMD, 502)
  ELSE WillRaise(e.exc, e.err)

\* wake_step with the polling delay slept before the first request too
wake_step_DelayFirst(first, payload, c) ==
  LET r == is_tesla_awake(payload)
      delay == 2
      settle == 2
  IN
  IF r.exc # "none" THEN [exc |-> r, awake |-> FALSE, counter |-> c, sleep |-> delay]
  ELSE IF ~first /\ TimedOut(c + 2)
  THEN [exc |-> TimeoutError, awake |-> r.val, counter |-> c + 2, sleep |-> delay]
  ELSE [exc |-> Ok(PyNone), awake |-> r.val, counter |-> IF first THEN 0 ELSE c + 2,
        sleep |-> delay + (IF r.val THEN settle ELSE 0)]

\* one wake_up request inside force_wakeup; first: the request of line 155,
\* otherwise one round of the while loop.  Gives the exception raised, or
\* whether the loop goes on
wake_step(first, payload, c) ==
  LET r == is_tesla_awake(payload)
      delay == IF first THEN 0 ELSE 2      \* time.sleep(2) at the head of the loop body
      settle == 2                          \* time.sleep(2) after the loop
  IN
  IF r.exc # "none" THEN [exc |-> r, awake |-> FALSE, counter |-> c, sleep |-> delay]
  ELSE IF ~first /\ TimedOut(c + 2)
  THEN [exc |-> TimeoutError, awake |-> r.val, counter |-> c + 2, sleep |-> delay]
  ELSE [exc |-> Ok(PyNone), awake |-> r.val, counter |-> IF first THEN 0 ELSE c + 2,
        sleep |-> delay + (IF r.val THEN settle ELSE 0)]

-----------------------------------------------------------------------------
(* The vendor command call and its classification *)

Unauthorized ==
  PyStr(<<"Unauthorized.", "Access", "Token", "or", "Vehicle", "ID", "seems", "to", "be", "wrong!">>)

Executed(command) == PyStr(<<"Command">> \o command.s \o <<"executed", "successfully">>)

TeslaApiError(content) == PyDict(K_TeslaApiError :> content)

\* classify_response with the test of response.result left out
classify_response_NoFlag(status, payload, model) ==
  LET j == Json(payload) IN
  IF j.exc # "none" THEN WillRaise(j.exc, j.err) ELSE
  IF ~RespOk(status)
  THEN IF status = 401
       THEN CallRespond(Unauthorized, model.INPUT_CMD, 401)
       ELSE CallRespond(TeslaApiError(j.val), model.INPUT_CMD, 502)
  ELSE CallRespond(Executed(model.INPUT_CMD), model.INPUT_CMD, 200)

\* parse_post_request from resp.json() on
classify_response(status, payload, model) ==
  LET j == Json(payload) IN
  IF j.exc # "none" THEN WillRaise(j.exc, j.err) ELSE
  IF ~RespOk(status)
  THEN IF status = 401
       THEN CallRespond(Unauthorized, model.INPUT_CMD, 401)
       ELSE CallRespond(TeslaApiError(j.val), model.INPUT_CMD, 502)
  ELSE
  LET a == PyIn(K_Response, j.val) IN
  IF a.exc # "none" THEN WillRaise(a.exc, a.err) ELSE
  IF ~a.val THEN CallRespond(Executed(model.INPUT_CMD), model.INPUT_CMD, 200) ELSE
  LET g == PyGetItem(j.val, K_Response) IN
  IF g.exc # "none" THEN WillRaise(g.exc, g.err) ELSE
  LET f == PyGetItem(g.val, K_Result) IN
  IF f.exc # "none" THEN WillRaise(f.exc, f.err) ELSE
  IF ~Truthy(f.val)
  THEN CallRespond(TeslaApiError(j.val), model.INPUT_CMD, 502)
  ELSE CallRespond(Executed(model.INPUT_CMD), model.INPUT_CMD, 200)

\* the request of __is_tesla_awake and its answer; the code reads the answer's
\* payload only, so no status is kept
wake_request(payload) ==
  [path |-> <<"wake_up">>, params |-> PyNone, status |-> 0, answer |-> payload,
   result |-> PollKind(is_tesla_awake(payload))]

\* the request of parse_post_request and its answer
command_request(model, status, payload) ==
  [path |-> <<"command">> \o COMMAND_ADAPTER[model.INPUT_CMD.s],
   params |-> gather_body_params(model.INPUT_CMD.s, COMMAND_ADAPTER[model.INPUT_CMD.s], model),
   status |-> status, answer |-> payload, result |-> "answered"]

-----------------------------------------------------------------------------
(* Inputs *)

Methods == {"GET", "POST", "PUT"}

InputCommands ==
  {<<"honk_horn">>, <<"actuate_frunk">>, <<"bogus">>, <<"Tesla", "API", "error">>}

Body(cmd, force) ==
  PyDict((K_Token :> PyStr(<<"token">>)) @@ (K_VehicleId :> PyStr(<<"42">>))
         @@ (K_InputCmd :> PyStr(cmd)) @@ (K_ForceWakeup :> PyBool(force)))

Bodies ==
  {Body(c, f) : c \in InputCommands, f \in BOOLEAN}
  \cup {NotJson,
        PyList(<<>>),
        PyDict((K_VehicleId :> PyStr(<<"42">>)) @@ (K_InputCmd :> PyStr(<<"honk_horn">>))),
        PyDict((K_Token :> PyStr(<<"token">>)) @@ (K_VehicleId :> PyStr(<<"42">>))
               @@ (K_InputCmd :> PyStr(<<"honk_horn">>)))}

Unavailable == PyStr(<<"vehicle", "unavailable:", "vehicle", "unavailable">>)

WakePayloads ==
  {PyDict(K_Response :> PyDict(K_State :> PyStr(<<"online">>))),
   PyDict(K_Response :> PyDict(K_State :> PyStr(<<"asleep">>))),
   PyDict((K_Response :> PyNone) @@ (K_Error :> Unavailable)),
   PyDict(K_Error :> PyStr(<<"not_found">>)),
   PyDict(K_Response :> EmptyDict),
   NotJson}

Statuses == {200, 401, 408}

CommandPayloads ==
  {PyDict(K_Response :> PyDict((K_Result :> PyBool(TRUE)) @@ (<<"reason">> :> PyStr(<<>>)))),
   PyDict(K_Response :> PyDict((K_Result :> PyBool(FALSE)) @@ (<<"reason">> :> PyStr(<<"could_not_wake_buses">>)))),
   PyDict((K_Response :> PyDict(K_Result :> PyBool(FALSE))) @@ (K_Error :> PyNone)),
   PyDict((K_Response :> PyNone) @@ (K_Error :> Unavailable)),
   PyDict(K_Error :> PyStr(<<"invalid", "bearer", "token">>)),
   PyDict(K_Response :> PyDict(<<"reason">> :> PyStr(<<>>))),
   EmptyDict,
   PyList(<<>>),
   NotJson}

-----------------------------------------------------------------------------
(* The state machine *)

NoRequest == [method |-> "", body |-> NotJson]

Init ==
  /\ configExists \in BOOLEAN
  /\ TELEGRAM_BOT = "None"
  /\ pc = "idle"
  /\ req = NoRequest
  /\ tesla_awake = FALSE
  /\ counter = 0
  /\ slept = 0
  /\ calls = <<>>
  /\ wakeFail = "none"
  /\ outcome = Pending
  /\ expected = Pending
  /\ sendFailed = FALSE
  /\ sent = <<>>

\* setup_telegram: the globals are set only when the config file exists; a
\* file that exists is taken to hold "token" and "chatId"
setup_telegram(bot, exists) == IF exists THEN "Bot" ELSE bot

\* main, method GET
MainGet(body) ==
  /\ pc = "idle"
  /\ req' = [method |-> "GET", body |-> body]
  /\ Conclude(CallRespond(PyStr(<<"Tesla", "API", "Relay", "running", "successfully">>),
                          PyStr(<<>>), 200), FALSE, TELEGRAM_BOT)
  /\ UNCHANGED <<configExists, TELEGRAM_BOT, tesla_awake, counter, slept, calls, wakeFail>>

\* main, any method other than GET and POST
MainUnsupported(method, body) ==
  /\ pc = "idle"
  /\ method \notin {"GET", "POST"}
  /\ req' = [method |-> method, body |-> body]
  /\ Conclude(CallRespond(PyStr(<<"Unsupported", "method", method>>), PyStr(<<>>), 400),
              FALSE, TELEGRAM_BOT)
  /\ UNCHANGED <<configExists, TELEGRAM_BOT, tesla_awake, counter, slept, calls, wakeFail>>

\* main, method POST: setup_telegram, req.get_json(), and parse_post_request up
\* to its first outbound request
MainPost(body) ==
  /\ pc = "idle"
  /\ req' = [method |-> "POST", body |-> body]
  /\ TELEGRAM_BOT' = setup_telegram(TELEGRAM_BOT, configExists)
  /\ LET j == Json(body)
         head == IF j.exc # "none" THEN WillRaise(j.exc, j.err) ELSE parse_head(body)
     IN IF head.kind \in {"respond", "raise"}
        THEN Conclude(head, TRUE, TELEGRAM_BOT')
        ELSE /\ pc' = IF head.kind = "wake" THEN "wake_first" ELSE "dispatch"
             /\ UNCHANGED <<outcome, expected, sendFailed, sent>>
  /\ UNCHANGED <<configExists, tesla_awake, counter, slept, calls, wakeFail>>

\* force_wakeup: one wake_up request and what follows it up to the next request
WakePoll(payload) ==
  /\ pc \in {"wake_first", "wake_loop"}
  /\ LET model == RequestModel(req.body)
         w == wake_step(pc = "wake_first", payload, counter)
     IN /\ calls' = Append(calls, wake_request(payload))
        /\ tesla_awake' = w.awake
        /\ counter' = w.counter
        /\ slept' = slept + w.sleep
        /\ wakeFail' = w.exc.exc
        /\ IF w.exc.exc # "none"
           THEN Conclude(WakeFailure(w.exc, model), TRUE, TELEGRAM_BOT)
           ELSE /\ pc' = IF w.awake THEN "dispatch" ELSE "wake_loop"
                /\ UNCHANGED <<outcome, expected, sendFailed, sent>>
  /\ UNCHANGED <<configExists, TELEGRAM_BOT, req>>

\* parse_post_request: the vendor command request and the reply built from its answer
Dispatch(status, payload) ==
  /\ pc = "dispatch"
  /\ LET model == RequestModel(req.body)
     IN /\ calls' = Append(calls, command_request(model, status, payload))
        /\ Conclude(classify_response(status, payload, model), TRUE, TELEGRAM_BOT)
  /\ UNCHANGED <<configExists, TELEGRAM_BOT, req, tesla_awake, counter, slept, wakeFail>>

\* the function host calls main again in the same process: the globals stay
NextInvocation ==
  /\ pc = "done"
  /\ pc' = "idle"
  /\ req' = NoRequest
  /\ tesla_awake' = FALSE
  /\ counter' = 0
  /\ slept' = 0
  /\ calls' = <<>>
  /\ wakeFail' = "none"
  /\ outcome' = Pending
  /\ expected' = Pending
  /\ sendFailed' = FALSE
  /\ sent' = <<>>
  /\ UNCHANGED <<configExists, TELEGRAM_BOT>>

Next ==
  \/ \E b \in Bodies : MainGet(b)
  \/ \E m \in Methods, b \in Bodies : MainUnsupported(m, b)
  \/ \E b \in Bodies : MainPost(b)
  \/ \E p \in WakePayloads : WakePoll(p)
  \/ \E st \in Statuses, p \in CommandPayloads : Dispatch(st, p)
  \/ NextInvocation

Spec == Init /\ [][Next]_vars

-----------------------------------------------------------------------------
(* Vocabulary of the properties *)

IsWake(c) == c.path = <<"wake_up">>
IsCommand(c) == c.path[1] = "command"
Polls == SelectSeq(calls, IsWake)
Issued == SelectSeq(calls, IsCommand)

Done == pc = "done"
\* a POST whose body passed field validation
ValidPost == req.method = "POST" /\ Validates(req.body)
\* ... and whose INPUT_CMD is a key of COMMAND_ADAPTER
Recognized == ValidPost /\ KnownCommand(RequestModel(req.body))
Forced == Recognized /\ Truthy(RequestModel(req.body).FORCE_WAKEUP)
InputCmd == RequestModel(req.body).INPUT_CMD

\* the answer of the vendor command call
Answered == Issued # <<>>
Upstream == Issued[1]

\* the payload is JSON carrying response.result
HasResultFlag(p) ==
  /\ p.t = "dict" /\ K_Response \in DOMAIN p.d
  /\ p.d[K_Response].t = "dict" /\ K_Result \in DOMAIN p.d[K_Response].d
ResultFlag(p) == p.d[K_Response].d[K_Result]
\* the payload is JSON with no response member
NoResponseMember(p) == p.t # "notjson" /\ PyIn(K_Response, p) = Ok(FALSE)

\* the wake answer is JSON without response.state: response missing, or
\* response present and not an object that has a state
LacksState(p) ==
  /\ p.t # "notjson"
  /\ ~(/\ p.t = "dict" /\ K_Response \in DOMAIN p.d
       /\ p.d[K_Response].t = "dict" /\ K_State \in DOMAIN p.d[K_Response].d)

AllOffline == \A i \in DOMAIN Polls : Polls[i].result = "offline"

-----------------------------------------------------------------------------
(* C1 *)

\* C1: a POST whose body validates and whose INPUT_CMD is no key of
\* COMMAND_ADAPTER is answered 400 with the command echoed in command and in
\* msg, for every command string, bot configured or not.  Stated for the
\* invocations in which no send_message call raised.
C1_UnknownCommandIs400 ==
  (Done /\ ValidPost /\ ~Recognized /\ ~sendFailed) =>
    /\ outcome.kind = "returned"
    /\ outcome.status = 400
    /\ outcome.command = InputCmd
    /\ outcome.msg.t = "str" /\ IsSubstring(InputCmd.s, outcome.msg.s)

(* C2 *)

\* C2: when the vendor command call answers 401, main returns 401 with the fixed
\* message, whatever the payload (any JSON, or not JSON at all).  Stated for
\* the invocations in which no send_message call raised.
C2_UnauthorizedWhateverPayload ==
  (Done /\ Answered /\ ~sendFailed) =>
    (Upstream.status = 401 =>
      /\ outcome.kind = "returned"
      /\ outcome.status = 401
      /\ outcome.msg = Unauthorized)

(* C3 *)

\* C3: when the vendor command call answers with a success status and a payload
\* whose response.result is falsy, main returns 502 with the payload wrapped as
\* a Tesla API error, never 200.  Stated for the invocations in which no
\* send_message call raised.
C3_FalsyResultIs502 ==
  (Done /\ Answered /\ ~sendFailed) =>
    ((RespOk(Upstream.status) /\ HasResultFlag(Upstream.answer)
        /\ ~Truthy(ResultFlag(Upstream.answer))) =>
      /\ outcome.kind = "returned"
      /\ outcome.status = 502
      /\ outcome.msg = TeslaApiError(Upstream.answer))

(* C4 *)

\* C4: when a send_message call raises, main still returns the envelope, with
\* the status it returns on the same inputs when the send succeeds; no
\* exception leaves main.
C4_NotificationFailureIsHarmless ==
  (Done /\ sendFailed) =>
    /\ outcome.kind = "returned"
    /\ outcome.status = expected.status

(* C5 *)

\* C5: while every wake poll reports offline, the loop goes on as long as the
\* accumulated wait is at most TIMEOUT_WAKEUP (at 30 another round follows), and
\* TimeoutError is raised by the poll that brings the wait to 32, the 17th.
C5_TimeoutBoundary ==
  (Polls # <<>> /\ AllOffline) =>
    /\ counter = 2 * (Len(Polls) - 1)
    /\ slept = counter
    /\ counter <= TIMEOUT_WAKEUP => (pc = "wake_loop" /\ wakeFail = "none")
    /\ counter > TIMEOUT_WAKEUP =>
         (counter = TIMEOUT_WAKEUP + 2 /\ Len(Polls) = 17 /\ wakeFail = "TimeoutError" /\ Done)

C5_Witness ==
  Polls # <<>> /\ AllOffline /\ wakeFail = "TimeoutError" /\ counter = 32

(* C6 *)

\* C6: when the first wake poll reports online, one wake request is issued,
\* force_wakeup returns without error, and the time slept is the settle delay
\* of 2 s alone.
C6_OnlineAtFirstPoll ==
  (Polls # <<>> /\ Polls[1].result = "online") =>
    /\ Len(Polls) = 1
    /\ wakeFail = "none"
    /\ slept = 2
    /\ pc \in {"dispatch", "done"}

C6_Witness ==
  pc = "dispatch" /\ Len(Polls) = 1 /\ Polls[1].result = "online" /\ slept = 2

(* C7 *)

\* C7: with FORCE_WAKEUP set, when the wake-up gate fails by timeout or on a wake
\* answer without response.state, main returns 502 with the wake-up error in
\* msg and INPUT_CMD in command, and no vendor command call is issued.  Stated
\* for the invocations in which no send_message call raised.
C7_WakeFailureIs502 ==
  (Done /\ Forced /\ Polls # <<>> /\ ~sendFailed) =>
    ((wakeFail = "TimeoutError" \/ LacksState(Polls[Len(Polls)].answer)) =>
      /\ outcome.kind = "returned"
      /\ outcome.status = 502
      /\ outcome.command = InputCmd
      /\ outcome.msg.t = "dict" /\ K_WakeError \in DOMAIN outcome.msg.d
      /\ Issued = <<>>)

(* C8 *)

\* C8: a poll that reports online is the last one and force_wakeup returns
\* normally after it; TimeoutError is raised only when no poll reported online.
C8_OnlineEndsTheLoop ==
  \A i \in DOMAIN Polls :
    Polls[i].result = "online" => (i = Len(Polls) /\ wakeFail = "none")

(* C9 *)

Success200 ==
  Done /\ req.method = "POST" /\ outcome.kind = "returned" /\ outcome.status = 200

\* C9, as stated: a POST is answered 200 "Command <name> executed successfully"
\* only if the vendor command call answered with a success status and a
\* payload carrying a truthy response.result.
C9_SuccessOnlyOnTruthyResult ==
  Success200 =>
    /\ Answered
    /\ RespOk(Upstream.status)
    /\ HasResultFlag(Upstream.answer) /\ Truthy(ResultFlag(Upstream.answer))

\* C9, amended: a POST is answered 200 "Command <name> executed successfully"
\* only if the vendor command call answered with a success status and a JSON
\* payload that either has no response member or carries a truthy
\* response.result; no other upstream outcome is answered 200.
C9_SuccessOnlyOnOkAnswer ==
  Success200 =>
    /\ Recognized
    /\ outcome.msg = Executed(InputCmd)
    /\ Answered
    /\ RespOk(Upstream.status)
    /\ \/ NoResponseMember(Upstream.answer)
       \/ HasResultFlag(Upstream.answer) /\ Truthy(ResultFlag(Upstream.answer))

C9_Witness ==
  Success200 /\ Answered /\ Upstream.answer = EmptyDict

(* C10 *)

\* C10: at most one vendor command call per invocation, issued last, only for a
\* valid POST with a recognized command and, when FORCE_WAKEUP is set, right
\* after a wake poll that reported online; without FORCE_WAKEUP no wake request
\* precedes it; GET, other methods, invalid bodies and unknown commands cause no
\* vehicle-API request at all.
C10_OneCommandAfterTheGate ==
  /\ Len(Issued) <= 1
  /\ \A i \in DOMAIN calls :
       IsCommand(calls[i]) =>
         /\ i = Len(calls)
         /\ Recognized
         /\ Forced => (i > 1 /\ calls[i - 1].result = "online" /\ wakeFail = "none")
         /\ ~Forced => i = 1
  /\ ~Recognized => calls = <<>>
  /\ ~Forced => Polls = <<>>

C10_Witness ==
  Done /\ Forced /\ Len(calls) >= 3 /\ IsCommand(calls[Len(calls)])

====
